---------------------------- MODULE Spec2Model ----------------------------
(***************************************************************************)
(* Model of eventually-util/src/inmemory/projector.rs: the Projector that  *)
(* folds the events of an EventStore (one-off "catch-up" stream) chained   *)
(* with an EventSubscriber (live subscription) into a Projection, keeps    *)
(* the last processed sequence number, and broadcasts every new state on a *)
(* tokio watch channel.                                                    *)
(*                                                                         *)
(* The Projection P is caller-defined.  It is modelled by the free         *)
(* projection: the state is the list of the sequence numbers of the events *)
(* folded into it, in fold order.  Every concrete projection is an image   *)
(* of this one, so "state equals the fold of E1..En" is "state = <<E1,..,  *)
(* En>>" here.  An event is identified with its sequence number.           *)
(*                                                                         *)
(* One loop iteration of run() is one action: state and                    *)
(* last_sequence_number are reachable only through &mut self, so no other  *)
(* task observes the iteration half-way; the watch channel is the only     *)
(* thing shared, and it changes in the single broadcast call.              *)
(*                                                                         *)
(* Sequence numbers are u32 in the source; run() only compares and copies  *)
(* them, so no arithmetic can wrap and they are plain naturals here.       *)
(***************************************************************************)
EXTENDS Integers, Sequences, FiniteSets, TLC

\* ---------------------------------------------------------------- bounds

\* Largest sequence number the free environment puts into a stream.
MaxSeq == 3
\* Items the free environment hands out over the life of one engine.
MaxItems == 5
\* Largest sequence number the store assigns.
StoreMaxSeq == 4
\* run() invocations on one engine.
MaxRuns == 2
\* Largest sequence number in a stream when watch handles are followed.
WatchMaxSeq == 1
\* Items the streams hand out when watch handles are followed.
WatchItems == 2

\* ------------------------------------------------------------ data model

\* Result::Err as a stream item (events are the naturals).
Err == -1

\* Items of a stream in the free environment: Ok(event) or Err.
FreeItems(maxSeq) == (0 .. maxSeq) \cup {Err}

\* P::default()
DefaultState == << >>

\* P::project(state, event)
project(s, event) == Append(s, event)

\* event.sequence_number()
sequence_number(event) == event

\* Mutant: the test lets the event just below the watermark through.
IsDuplicateOffByOne(event_sequence_number, expected_sequence_number) ==
    event_sequence_number + 1 < expected_sequence_number

\* Mutant: the test also discards the event equal to the watermark.
IsDuplicateInclusive(event_sequence_number, expected_sequence_number) ==
    event_sequence_number <= expected_sequence_number

\* Mutant: nothing is ever discarded.
IsDuplicateNever(event_sequence_number, expected_sequence_number) == FALSE

\* The duplicate test of run(): event_sequence_number < expected_sequence_number.
IsDuplicate(event_sequence_number, expected_sequence_number) ==
    event_sequence_number < expected_sequence_number

\* Mutant: the two arguments of the compare-and-swap are exchanged.
compare_and_swapExchanged(held, current, new) == IF held = new THEN current ELSE held

\* AtomicU32::compare_and_swap(current, new): the value the atomic holds after.
compare_and_swap(held, current, new) == IF held = current THEN new ELSE held

\* Mutant: the one-off stream is opened before the subscription.
OpenOrderSwapped == << "stream_all", "subscribe_all" >>

\* The order in which run() opens its two streams.
OpenOrder == << "subscribe_all", "stream_all" >>

\* The receiver version of a Receiver that was never polled.
Unseen == -1

\* channel(init): the value and the version (number of broadcasts) it holds.
channel(init) == [value |-> init, version |-> 0]

\* Sender::broadcast(value): replace the value, advance the version.
broadcast(c, value) == [value |-> value, version |-> c.version + 1]

VARIABLES
    state,                 \* Projector.state
    last_sequence_number,  \* Projector.last_sequence_number
    chan,                  \* the watch channel behind Projector.tx / rx
    pc,                    \* where run() is: "idle", "open", "loop", "panicked"
    opened,                \* how many of the two streams this run() has opened
    ret,                   \* what the last run() returned: "none", "Ok", the failing step, "panic"
    subscribed,            \* this run() has its subscription
    queried,               \* this run() has its one-off stream
    subscription,          \* items the subscription still holds
    liveClosed,            \* the subscription ends after the items it holds
    one_off_stream,        \* items the one-off stream still holds
    oneOffEnded,           \* the one-off stream ends after the items it holds
    consumed,              \* items stream.next() has yielded in this run()
    runs,                  \* run() invocations so far
    budget,                \* items the free environment may still hand out
    log,                   \* the store's events, in append order
    subPos,                \* Len(log) when this run() subscribed
    queryPos,              \* Len(log) when this run() queried the store
    handles                \* the Receivers watch() has returned, with what each delivered

vars == << state, last_sequence_number, chan, pc, opened, ret, subscribed, queried,
           subscription, liveClosed, one_off_stream, oneOffEnded, consumed, runs,
           budget, log, subPos, queryPos, handles >>

engine == << state, last_sequence_number, chan >>
streams == << subscribed, queried, subscription, liveClosed, one_off_stream, oneOffEnded >>
store == << log, subPos, queryPos >>

\* The watch handles followed: two, the least that shows one handle's reads
\* leave the other alone (a Receiver's poll touches only its own version).
Handles == {1, 2}

\* A handle watch() has not returned yet.  st is "none", "open" or "dropped";
\* droppedAt is the channel's version when the caller dropped the handle.
NoHandle == [st |-> "none", version |-> Unseen, bornVersion |-> 0,
             born |-> << >>, bornIdle |-> FALSE, delivered |-> << >>,
             droppedAt |-> Unseen]

\* Projector.rx: the receiver the engine keeps and never polls.
rx == [version |-> Unseen]

\* Mutant: the engine does not keep the original receiver.
ReceiversHandlesOnly == { h \in Handles : handles[h].st = "open" }

\* The live Receivers of the channel: the one the engine keeps in its rx field
\* (receiver 0), and the handles watch() returned that have not been dropped.
Receivers == {0} \cup { h \in Handles : handles[h].st = "open" }

\* Sender::broadcast returns an error when no Receiver of the channel is left.
BroadcastFails == Receivers = {}

\* Projector::new, before any environment is attached.
New ==
    /\ state = DefaultState
    /\ chan = channel(DefaultState)
    /\ last_sequence_number = 0
    /\ pc = "idle"
    /\ opened = 0
    /\ ret = "none"
    /\ subscribed = FALSE
    /\ queried = FALSE
    /\ subscription = << >>
    /\ liveClosed = FALSE
    /\ one_off_stream = << >>
    /\ oneOffEnded = FALSE
    /\ consumed = 0
    /\ runs = 0
    /\ subPos = 0
    /\ queryPos = 0
    /\ handles = [h \in Handles |-> NoHandle]

\* ---------------------------------------------------------------- run()

\* Mutant: run() starts over from the default state and watermark zero.
RunReset ==
    /\ pc = "idle"
    /\ runs < MaxRuns
    /\ pc' = "open"
    /\ opened' = 0
    /\ ret' = "none"
    /\ runs' = runs + 1
    /\ subscribed' = FALSE
    /\ queried' = FALSE
    /\ subscription' = << >>
    /\ liveClosed' = FALSE
    /\ one_off_stream' = << >>
    /\ oneOffEnded' = FALSE
    /\ consumed' = 0
    /\ subPos' = 0
    /\ queryPos' = 0
    /\ state' = DefaultState
    /\ last_sequence_number' = 0
    /\ UNCHANGED << chan, budget, log >>
    /\ UNCHANGED handles

\* run() is called: nothing is open yet.
Run ==
    /\ pc = "idle"
    /\ runs < MaxRuns
    /\ pc' = "open"
    /\ opened' = 0
    /\ ret' = "none"
    /\ runs' = runs + 1
    /\ subscribed' = FALSE
    /\ queried' = FALSE
    /\ subscription' = << >>
    /\ liveClosed' = FALSE
    /\ one_off_stream' = << >>
    /\ oneOffEnded' = FALSE
    /\ consumed' = 0
    /\ subPos' = 0
    /\ queryPos' = 0
    /\ UNCHANGED << engine, budget, log >>
    /\ UNCHANGED handles

\* The call run() makes next while opening.
NextOpen == OpenOrder[opened + 1]

\* After a successful open: the other open, or the loop.
AfterOpen ==
    /\ opened' = opened + 1
    /\ pc' = IF opened + 1 = Len(OpenOrder) THEN "loop" ELSE "open"

\* subscribe_all().await? / stream_all().await? failed: run() returns the error.
OpenFail ==
    /\ pc = "open"
    /\ pc' = "idle"
    /\ ret' = NextOpen
    /\ UNCHANGED << engine, opened, streams, consumed, runs, budget, store >>
    /\ UNCHANGED handles

\* Mutant: the broadcast is made before the fold, so it carries the state the
\* previous event left.
ApplyBroadcastFirst(event) ==
    LET expected_sequence_number == last_sequence_number
        event_sequence_number == sequence_number(event)
    IN  IF IsDuplicate(event_sequence_number, expected_sequence_number)
        THEN UNCHANGED << state, last_sequence_number, chan >>
        ELSE /\ chan' = broadcast(chan, state)
             /\ state' = project(state, event)
             /\ last_sequence_number' =
                    compare_and_swap(last_sequence_number,
                                     expected_sequence_number, event_sequence_number)

\* Mutant: a discarded duplicate is broadcast too (the state it left untouched).
ApplyBroadcastDiscarded(event) ==
    LET expected_sequence_number == last_sequence_number
        event_sequence_number == sequence_number(event)
    IN  IF IsDuplicate(event_sequence_number, expected_sequence_number)
        THEN /\ chan' = broadcast(chan, state)
             /\ UNCHANGED << state, last_sequence_number >>
        ELSE /\ state' = project(state, event)
             /\ last_sequence_number' =
                    compare_and_swap(last_sequence_number,
                                     expected_sequence_number, event_sequence_number)
             /\ chan' = broadcast(chan, state')

\* Mutant: the broadcast waits until every handle has read the current value
\* (a channel that keeps a backlog instead of the latest value).
ApplyBlocking(event) ==
    LET expected_sequence_number == last_sequence_number
        event_sequence_number == sequence_number(event)
    IN  IF IsDuplicate(event_sequence_number, expected_sequence_number)
        THEN UNCHANGED << state, last_sequence_number, chan >>
        ELSE /\ \A h \in DOMAIN handles :
                    handles[h].st = "open" => handles[h].version = chan.version
             /\ state' = project(state, event)
             /\ last_sequence_number' =
                    compare_and_swap(last_sequence_number,
                                     expected_sequence_number, event_sequence_number)
             /\ chan' = broadcast(chan, state')

\* The body of the loop for one event.  A broadcast that fails leaves the
\* channel as it was.
Apply(event) ==
    LET expected_sequence_number == last_sequence_number
        event_sequence_number == sequence_number(event)
    IN  IF IsDuplicate(event_sequence_number, expected_sequence_number)
        THEN UNCHANGED << state, last_sequence_number, chan >>
        ELSE /\ state' = project(state, event)
             /\ last_sequence_number' =
                    compare_and_swap(last_sequence_number,
                                     expected_sequence_number, event_sequence_number)
             /\ chan' = IF BroadcastFails THEN chan ELSE broadcast(chan, state')

\* The expect() on the result of the broadcast panics: the event is not a
\* duplicate and the broadcast fails.
Panics(event) ==
    /\ ~IsDuplicate(sequence_number(event), last_sequence_number)
    /\ BroadcastFails

\* Mutant: an Err item is skipped instead of returned.
OnItemSkipErr(item) ==
    IF item = Err
    THEN UNCHANGED << state, last_sequence_number, chan, pc, ret >>
    ELSE /\ Apply(item)
         /\ UNCHANGED << pc, ret >>

\* One item of the merged stream: `event?` then the body.
OnItem(item) ==
    IF item = Err
    THEN /\ pc' = "idle"
         /\ ret' = "item"
         /\ UNCHANGED << state, last_sequence_number, chan >>
    ELSE /\ Apply(item)
         /\ IF Panics(item)
            THEN pc' = "panicked" /\ ret' = "panic"
            ELSE UNCHANGED << pc, ret >>

\* Mutant: the two streams are merged as they come instead of chained: an item
\* of the subscription is taken whenever there is one.
RunNextInterleaved ==
    /\ pc = "loop"
    /\ \/ /\ one_off_stream # << >>
          /\ OnItem(Head(one_off_stream))
          /\ one_off_stream' = Tail(one_off_stream)
          /\ UNCHANGED subscription
       \/ /\ subscription # << >>
          /\ OnItem(Head(subscription))
          /\ subscription' = Tail(subscription)
          /\ UNCHANGED one_off_stream
    /\ consumed' = consumed + 1
    /\ UNCHANGED << opened, subscribed, queried, liveClosed, oneOffEnded, runs, budget, store >>
    /\ UNCHANGED handles

\* stream.next().await yields an item: the one-off stream first, then the subscription.
RunNext ==
    /\ pc = "loop"
    /\ \/ /\ one_off_stream # << >>
          /\ OnItem(Head(one_off_stream))
          /\ one_off_stream' = Tail(one_off_stream)
          /\ UNCHANGED subscription
       \/ /\ one_off_stream = << >>
          /\ oneOffEnded
          /\ subscription # << >>
          /\ OnItem(Head(subscription))
          /\ subscription' = Tail(subscription)
          /\ UNCHANGED one_off_stream
    /\ consumed' = consumed + 1
    /\ UNCHANGED << opened, subscribed, queried, liveClosed, oneOffEnded, runs, budget, store >>
    /\ UNCHANGED handles

\* Mutant: run() returns as soon as the merged stream has nothing to yield,
\* ended or not.
RunReturnWhenEmpty ==
    /\ pc = "loop"
    /\ one_off_stream = << >>
    /\ subscription = << >>
    /\ pc' = "idle"
    /\ ret' = "Ok"
    /\ UNCHANGED << engine, opened, streams, consumed, runs, budget, store >>
    /\ UNCHANGED handles

\* stream.next().await yields None: run() returns Ok(()).
RunReturn ==
    /\ pc = "loop"
    /\ one_off_stream = << >>
    /\ oneOffEnded
    /\ subscription = << >>
    /\ liveClosed
    /\ pc' = "idle"
    /\ ret' = "Ok"
    /\ UNCHANGED << engine, opened, streams, consumed, runs, budget, store >>
    /\ UNCHANGED handles

\* ------------------------------------------------------- watch handles

\* Mutant: the returned Receiver counts the current value as already seen.
watchSeen ==
    [st |-> "open", version |-> chan.version, bornVersion |-> chan.version,
     born |-> chan.value, bornIdle |-> runs = 0, delivered |-> << >>,
     droppedAt |-> Unseen]

\* watch(): self.rx.clone().  The clone starts from the version of rx, which was
\* never polled.  bornVersion and born record the channel when it was made, bornIdle whether
\* run() had not been called yet.
watch ==
    [st |-> "open", version |-> rx.version, bornVersion |-> chan.version,
     born |-> chan.value, bornIdle |-> runs = 0, delivered |-> << >>,
     droppedAt |-> Unseen]

\* A caller obtains a handle.  watch(&self) cannot be called while a run(&mut self)
\* future is alive.
Watch ==
    /\ pc = "idle"
    /\ \E h \in Handles :
          /\ handles[h].st = "none"
          /\ \A g \in Handles : g < h => handles[g].st # "none"
          /\ handles' = [handles EXCEPT ![h] = watch]
    /\ UNCHANGED << engine, pc, opened, ret, streams, consumed, runs, budget, store >>

\* A handle is polled and a value it has not seen is in the channel: it yields
\* the current value and remembers the version.
Read ==
    \E h \in Handles :
       /\ handles[h].st = "open"
       /\ handles[h].version # chan.version
       /\ handles' = [handles EXCEPT
             ![h].version = chan.version,
             ![h].delivered = Append(@, [value |-> chan.value, version |-> chan.version])]
       /\ UNCHANGED << engine, pc, opened, ret, streams, consumed, runs, budget, store >>

\* The caller drops a handle: the channel has one Receiver less.
Drop ==
    \E h \in Handles :
       /\ handles[h].st = "open"
       /\ handles' = [handles EXCEPT ![h] =
             [NoHandle EXCEPT !.st = "dropped", !.droppedAt = chan.version]]
       /\ UNCHANGED << engine, pc, opened, ret, streams, consumed, runs, budget, store >>

\* ------------------------------------------------------ free environment
\* Streams that yield anything: any sequence number in any order, or Err.  The
\* items come into being one at a time: a stream holds at most the item it
\* yields next.

\* subscribe_all() resolves to a subscription.
FreeSubscribeAll ==
    /\ pc = "open"
    /\ NextOpen = "subscribe_all"
    /\ subscribed' = TRUE
    /\ subscription' = << >>
    /\ AfterOpen
    /\ UNCHANGED << engine, ret, queried, liveClosed, one_off_stream, oneOffEnded,
                    consumed, runs, budget, store >>
    /\ UNCHANGED handles

\* stream_all(Select::All) resolves to a one-off stream.
FreeStreamAll ==
    /\ pc = "open"
    /\ NextOpen = "stream_all"
    /\ queried' = TRUE
    /\ one_off_stream' = << >>
    /\ AfterOpen
    /\ UNCHANGED << engine, ret, subscribed, subscription, liveClosed, oneOffEnded,
                    consumed, runs, budget, store >>
    /\ UNCHANGED handles

\* The open subscription receives an item.
FreePublish(maxSeq) ==
    /\ pc # "idle"
    /\ subscribed
    /\ ~liveClosed
    /\ subscription = << >>
    /\ budget > 0
    /\ \E item \in FreeItems(maxSeq) : subscription' = Append(subscription, item)
    /\ budget' = budget - 1
    /\ UNCHANGED << engine, pc, opened, ret, subscribed, queried, liveClosed,
                    one_off_stream, oneOffEnded, consumed, runs, store >>
    /\ UNCHANGED handles

\* The open one-off stream receives an item.
FreeFetch(maxSeq) ==
    /\ pc # "idle"
    /\ queried
    /\ ~oneOffEnded
    /\ one_off_stream = << >>
    /\ budget > 0
    /\ \E item \in FreeItems(maxSeq) : one_off_stream' = Append(one_off_stream, item)
    /\ budget' = budget - 1
    /\ UNCHANGED << engine, pc, opened, ret, subscribed, queried, subscription,
                    liveClosed, oneOffEnded, consumed, runs, store >>
    /\ UNCHANGED handles

\* The one-off stream has no more items than those it holds.
FreeFetchEnd ==
    /\ pc # "idle"
    /\ queried
    /\ ~oneOffEnded
    /\ oneOffEnded' = TRUE
    /\ UNCHANGED << engine, pc, opened, ret, subscribed, queried, subscription,
                    liveClosed, one_off_stream, consumed, runs, budget, store >>
    /\ UNCHANGED handles

\* ----------------------------------------------------- store environment

\* The store appends an event: sequence numbers are assigned in increasing order.
\* A subscription that is open and not ended yields the event too.
StoreAppend(maxSeq) ==
    /\ \E e \in 0 .. maxSeq :
          /\ log # << >> => e > log[Len(log)]
          /\ log' = Append(log, e)
          /\ subscription' = IF pc # "idle" /\ subscribed /\ ~liveClosed
                             THEN Append(subscription, e)
                             ELSE subscription
    /\ UNCHANGED << engine, pc, opened, ret, subscribed, queried, liveClosed,
                    one_off_stream, oneOffEnded, consumed, runs, budget, subPos, queryPos >>
    /\ UNCHANGED handles

\* The subscription ends (either environment): the stream ends after what it holds.
SubscriptionEnd ==
    /\ pc # "idle"
    /\ subscribed
    /\ ~liveClosed
    /\ liveClosed' = TRUE
    /\ UNCHANGED << engine, pc, opened, ret, subscribed, queried, subscription,
                    one_off_stream, oneOffEnded, consumed, runs, budget, store >>
    /\ UNCHANGED handles

\* subscribe_all() resolves: the subscription yields the events appended from now on.
StoreSubscribeAll ==
    /\ pc = "open"
    /\ NextOpen = "subscribe_all"
    /\ subscribed' = TRUE
    /\ subscription' = << >>
    /\ subPos' = Len(log)
    /\ AfterOpen
    /\ UNCHANGED << engine, ret, queried, liveClosed, one_off_stream, oneOffEnded,
                    consumed, runs, budget, log, queryPos >>
    /\ UNCHANGED handles

\* stream_all(Select::All) resolves: the one-off stream yields the events appended so far.
StoreStreamAll ==
    /\ pc = "open"
    /\ NextOpen = "stream_all"
    /\ queried' = TRUE
    /\ one_off_stream' = log
    /\ oneOffEnded' = TRUE
    /\ queryPos' = Len(log)
    /\ AfterOpen
    /\ UNCHANGED << engine, ret, subscribed, subscription, liveClosed, consumed,
                    runs, budget, log, subPos >>
    /\ UNCHANGED handles

Init ==
    /\ New
    /\ budget = MaxItems
    /\ log = << >>

Next ==
    \/ Run
    \/ OpenFail
    \/ FreeSubscribeAll
    \/ FreeStreamAll
    \/ FreePublish(MaxSeq)
    \/ FreeFetch(MaxSeq)
    \/ FreeFetchEnd
    \/ SubscriptionEnd
    \/ RunNext
    \/ RunReturn

Spec == Init /\ [][Next]_vars

\* The free environment with finite streams, and a run() future that is polled:
\* the loop takes an item the merged stream holds and sees its end (the executor
\* wakes the task), and each open stream ends at some point.
FairSpec ==
    /\ Init /\ [][Next]_vars
    /\ WF_vars(RunNext)
    /\ WF_vars(RunReturn)
    /\ WF_vars(FreeFetchEnd)
    /\ WF_vars(SubscriptionEnd)

StoreInit ==
    /\ New
    /\ budget = 0
    /\ log = << >>

StoreNext ==
    \/ Run
    \/ OpenFail
    \/ StoreSubscribeAll
    \/ StoreStreamAll
    \/ StoreAppend(StoreMaxSeq)
    \/ SubscriptionEnd
    \/ RunNext
    \/ RunReturn

StoreSpec == StoreInit /\ [][StoreNext]_vars

WatchInit ==
    /\ New
    /\ budget = WatchItems
    /\ log = << >>

WatchNext ==
    \/ Run
    \/ OpenFail
    \/ FreeSubscribeAll
    \/ FreeStreamAll
    \/ FreePublish(WatchMaxSeq)
    \/ FreeFetch(WatchMaxSeq)
    \/ FreeFetchEnd
    \/ SubscriptionEnd
    \/ RunNext
    \/ RunReturn
    \/ Watch
    \/ Read
    \/ Drop

WatchSpec == WatchInit /\ [][WatchNext]_vars

\* ------------------------------------------------- what a run() was given

\* The set of the elements of a sequence.
Range(s) == { s[i] : i \in 1 .. Len(s) }

RECURSIVE Ascending(_)
\* The elements of a set of naturals in ascending order.
Ascending(S) ==
    IF S = {} THEN << >>
    ELSE LET m == CHOOSE x \in S : \A y \in S : x <= y
         IN  << m >> \o Ascending(S \ {m})

\* The item stream.next() yields next (when the merged stream holds one).
NextItem == IF one_off_stream # << >> THEN Head(one_off_stream) ELSE Head(subscription)

\* This step is stream.next() yielding an item.
Yields == pc = "loop" /\ consumed' = consumed + 1

\* Store environment: the items of the one-off stream this run() has consumed.
CatchUpConsumed == IF queried THEN queryPos - Len(one_off_stream) ELSE 0

\* Store environment: the events this run() has consumed, from either stream.
Delivered ==
    Range(SubSeq(log, 1, CatchUpConsumed))
        \cup Range(SubSeq(log, subPos + 1, subPos + (consumed - CatchUpConsumed)))

\* run() has processed everything the merged stream holds and the subscription is live.
Drained ==
    /\ pc = "loop"
    /\ one_off_stream = << >>
    /\ oneOffEnded
    /\ subscription = << >>
    /\ ~liveClosed

\* ----------------------------------------------------------------- claims

\* C1: with catch-up = [1,2,3] and live = [2,3,4], run() ends with the state
\* equal to the fold of 1,2,3,4, each exactly once, and has made 4 broadcasts.
C1_OverlapFoldedOnce ==
    ( /\ pc = "idle" /\ ret = "Ok" /\ runs = 1
      /\ log = << 1, 2, 3, 4 >> /\ subPos = 1 /\ queryPos = 3 /\ consumed = 6 )
        => (state = << 1, 2, 3, 4 >> /\ chan.version = 4)

\* C2: during the first run(), with ordered streams whose live part may overlap
\* the tail of the catch-up, the state is the fold of exactly the distinct
\* sequence numbers <= watermark delivered so far, once each, ascending.
C2_StateIsFoldOfDistinct ==
    runs = 1 =>
        state = Ascending({ e \in Delivered : e <= last_sequence_number })

\* C3: no event is lost in the handoff: once run() has processed all the merged
\* stream holds (the subscription still live), every event appended to the
\* store, before or after either open, has been folded into the state; and at
\* any time every event run() has consumed has been folded.
C3_NoEventLost ==
    /\ Drained => \A i \in 1 .. Len(log) : log[i] \in Range(state)
    /\ pc = "loop" => \A e \in Delivered : e \in Range(state)

\* C3 witness: events were appended before the subscription, between the two
\* opens and after the query, and run() has processed all of them.
C3_Witness ==
    /\ Drained /\ runs = 1
    /\ 0 < subPos /\ subPos < queryPos /\ queryPos < Len(log)

\* C4: an event whose sequence number is strictly below the watermark at its
\* arrival leaves state, watermark and channel (value and version) unchanged.
C4_DuplicateRejected ==
    [][ (Yields /\ NextItem # Err /\ NextItem < last_sequence_number)
            => UNCHANGED << state, last_sequence_number, chan >> ]_vars

\* C4 witness: event 2 was folded, then event 1 arrived and was discarded.
C4_Witness ==
    /\ pc = "loop" /\ runs = 1 /\ consumed = 2
    /\ state = << 2 >> /\ last_sequence_number = 2 /\ chan.version = 1

\* C5: strictly increasing events delivered only by the catch-up stream, the live
\* stream yielding nothing: a fresh engine's run() ends with state = fold of all
\* of them in delivery order.
C5_CatchUpOnlyFold ==
    (pc = "idle" /\ ret = "Ok" /\ runs = 1 /\ consumed = queryPos)
        => state = SubSeq(log, 1, queryPos)

\* C5 witness: three events, the first with sequence number 0, only by catch-up.
C5_Witness ==
    /\ pc = "idle" /\ ret = "Ok" /\ runs = 1 /\ consumed = queryPos
    /\ queryPos = 3 /\ log[1] = 0 /\ Len(state) = 3

\* C6: an Err item makes run() return at once with state, watermark and channel
\* as the last applied event left them (no broadcast for the failed read); after
\* the return nothing more is consumed or changed until run() is called again,
\* and the channel still holds the retained state.
C6_ItemErrorPropagates ==
    /\ [](ret = "item" => (pc = "idle" /\ chan.value = state))
    /\ [][ (Yields /\ NextItem = Err)
              => (pc' = "idle" /\ ret' = "item"
                  /\ UNCHANGED << state, last_sequence_number, chan >>) ]_vars
    /\ [][ (pc = "idle" /\ ret = "item")
              => \/ UNCHANGED << state, last_sequence_number, chan, consumed,
                                 one_off_stream, subscription >>
                 \/ (pc' = "open" /\ consumed' = 0
                     /\ UNCHANGED << state, last_sequence_number, chan >>) ]_vars

\* C6 witness: the catch-up stream yielded three events, then failed on the
\* fourth read, with a live item left unread.
C6_Witness ==
    /\ pc = "idle" /\ ret = "item" /\ consumed = 4
    /\ state = << 1, 2, 3 >> /\ last_sequence_number = 3
    /\ chan = [value |-> << 1, 2, 3 >>, version |-> 3]
    /\ one_off_stream = << >> /\ subscription # << >>

\* C7: subscribe_all() failing returns the error with the catch-up stream never
\* opened; stream_all() failing returns the error with no event consumed; either
\* way state, watermark and channel are unchanged.
C7_OpenErrorPropagates ==
    /\ [](ret = "subscribe_all" => (pc = "idle" /\ ~queried /\ consumed = 0))
    /\ [](ret = "stream_all" => (pc = "idle" /\ ~queried /\ consumed = 0))
    /\ [][ (pc = "open" /\ pc' = "idle")
              => (ret' \in {"subscribe_all", "stream_all"}
                  /\ UNCHANGED << state, last_sequence_number, chan >>) ]_vars

\* C7 witness: the second run() failed in stream_all() with live items pending.
C7_Witness ==
    /\ pc = "idle" /\ ret = "stream_all" /\ runs = 2
    /\ subscribed /\ subscription # << >> /\ state # << >>

\* C8: the watermark starts at zero and never decreases, whatever the order of
\* the sequence numbers the merged stream delivers.
C8_WatermarkMonotonic ==
    /\ last_sequence_number = 0
    /\ [][ last_sequence_number' >= last_sequence_number ]_vars

\* C8 witness: after a gap to 2, two lower events arrived and the watermark stayed.
C8_Witness ==
    /\ pc = "loop" /\ consumed = 3 /\ state = << 2 >> /\ last_sequence_number = 2

\* The state the v-th fold of this engine produced (the free projection only
\* grows, and every broadcast follows exactly one fold).
ValueAt(v) == SubSeq(state, 1, v)

\* A handle that has delivered nothing has a value waiting for its first poll.
Ready(h) == handles[h].delivered = << >> => handles[h].version # chan.version

\* C9 as stated: a handle obtained before run() starts delivers the default state
\* as its first value, however many events run() applies before its first read.
C9_FirstValueIsDefault ==
    \A h \in Handles :
        (handles[h].st = "open" /\ handles[h].bornIdle /\ handles[h].delivered # << >>)
            => handles[h].delivered[1].value = DefaultState

\* C9 amended: a handle obtained before run() starts has a value ready from its
\* creation, and its first value is the channel's value at the time of its first
\* read: the default state when that read comes before the first broadcast,
\* otherwise the state of the latest broadcast made before the read.
C9_FirstValueAtFirstRead ==
    \A h \in Handles :
        (handles[h].st = "open" /\ handles[h].bornIdle)
            => /\ Ready(h)
               /\ handles[h].delivered # << >> =>
                     LET first == handles[h].delivered[1]
                     IN  /\ first.value = ValueAt(first.version)
                         /\ first.version = 0 => first.value = DefaultState

\* C9 witness: two handles obtained before run(); one read at once and got the
\* default state, the other read first after two broadcasts and got their result.
C9_Witness ==
    /\ handles[1].bornIdle /\ handles[1].delivered # << >>
    /\ handles[1].delivered[1] = [value |-> DefaultState, version |-> 0]
    /\ handles[2].bornIdle /\ handles[2].delivered # << >>
    /\ handles[2].delivered[1].version = 2
    /\ handles[2].delivered[1].value # DefaultState

\* C10 as stated: a handle obtained after k >= 1 broadcasts delivers as its first
\* value the snapshot current when it was created, and never an earlier one.
C10_FirstValueIsCreationSnapshot ==
    \A h \in Handles :
        (handles[h].st = "open" /\ handles[h].bornVersion >= 1)
            => /\ handles[h].delivered # << >> => handles[h].delivered[1].value = handles[h].born
               /\ \A i \in 1 .. Len(handles[h].delivered) :
                     handles[h].delivered[i].version >= handles[h].bornVersion

\* C10 amended: a handle obtained after k >= 1 broadcasts has a value ready from
\* its creation; its first value is the single snapshot current at its first read
\* (the one current at its creation when no broadcast came in between); every
\* value it delivers is the state of a broadcast no older than the k-th, and
\* each is newer than the one before: none of the earlier k-1 snapshots, and no
\* backlog, is ever delivered.
C10_LateJoinLatestOnly ==
    \A h \in Handles :
        (handles[h].st = "open" /\ handles[h].bornVersion >= 1)
            => LET d == handles[h].delivered
               IN  /\ Ready(h)
                   /\ \A i \in 1 .. Len(d) :
                         /\ d[i].version >= handles[h].bornVersion
                         /\ d[i].value = ValueAt(d[i].version)
                         /\ i > 1 => d[i - 1].version < d[i].version
                   /\ (d # << >> /\ d[1].version = handles[h].bornVersion)
                         => d[1].value = handles[h].born

\* C10 witness: a handle obtained after the first broadcast read first after the
\* second one, and got the second snapshot.
C10_Witness ==
    \E h \in Handles :
        /\ handles[h].st = "open" /\ handles[h].bornVersion = 1
        /\ handles[h].delivered # << >>
        /\ handles[h].delivered[1].version = 2
        /\ handles[h].delivered[1].value # handles[h].born

\* C11: for every handle, under every interleaving of reads with run() steps, the
\* values delivered are states the folds produced (or the initial state), in
\* fold order, each later than the one before: never out of order, never a
\* second delivery on account of a discarded duplicate.
C11_ObservedInFoldOrder ==
    \A h \in Handles :
        LET d == handles[h].delivered
        IN  \A i \in 1 .. Len(d) :
               /\ Len(d[i].value) <= Len(state)
               /\ d[i].value = SubSeq(state, 1, Len(d[i].value))
               /\ i > 1 => Len(d[i - 1].value) < Len(d[i].value)

\* C11 witness: a handle read the initial state and the state after event 1;
\* then event 0 arrived, was discarded, and left the handle nothing to read.
C11_Witness ==
    \E h \in Handles :
        /\ pc = "loop" /\ consumed = 2 /\ state = << 1 >>
        /\ Len(handles[h].delivered) = 2
        /\ handles[h].delivered[2].value = << 1 >>
        /\ handles[h].version = chan.version

\* run() has returned Ok(()) and has not been called again.
Completed == pc = "idle" /\ ret = "Ok"

\* The versions a handle has delivered, in delivery order.
Versions(h) == [i \in 1 .. Len(handles[h].delivered) |-> handles[h].delivered[i].version]

\* C12 as stated: when run() completes successfully, a handle that existed during
\* the run (and has read all there is to read) has observed every applied state
\* from its first one on, with no gaps.
C12_ObservedEveryState ==
    \A h \in Handles :
        (Completed /\ runs = 1 /\ handles[h].st = "open" /\ handles[h].bornIdle
            /\ handles[h].version = chan.version)
            => \A v \in handles[h].delivered[1].version .. chan.version :
                  v \in Range(Versions(h))

\* C12 amended: when run() completes successfully the channel holds the final
\* state, and every handle has observed applied states in order, each newer than
\* the one before, possibly with gaps; the final state is the last value the
\* handle observed, or else the value its next read delivers.
C12_ObservedUpToFinalState ==
    Completed =>
        /\ chan.value = state
        /\ \A h \in Handles :
              handles[h].st = "open" =>
                 LET d == handles[h].delivered
                 IN  /\ \A i \in 1 .. Len(d) :
                           /\ d[i].value = ValueAt(d[i].version)
                           /\ i > 1 => d[i - 1].version < d[i].version
                     /\ \/ handles[h].version # chan.version
                        \/ d # << >> /\ d[Len(d)].value = state

\* C12 witness: the first run() completed after two folds; a handle obtained
\* before it read the initial state and the final state and missed the one between.
C12_Witness ==
    \E h \in Handles :
        /\ Completed /\ runs = 1 /\ handles[h].bornIdle
        /\ Versions(h) = << 0, 2 >>
        /\ handles[h].delivered[2].value = state

\* The merged stream holds an item for stream.next() to yield.
ItemReady ==
    /\ pc = "loop"
    /\ \/ one_off_stream # << >>
       \/ oneOffEnded /\ subscription # << >>

\* C13: last-value-wins.  A read delivers exactly one value, the state of the
\* latest broadcast, however many broadcasts were made since the handle's last
\* read; what it delivers is always newer than what it delivered before, so a
\* skipped state is never delivered later; and run() can always take the item
\* its stream holds, whatever the handles have or have not read.
C13_LastValueWins ==
    /\ [](ItemReady => ENABLED RunNext)
    /\ [](\A h \in Handles : \A i \in 2 .. Len(handles[h].delivered) :
             handles[h].delivered[i - 1].version < handles[h].delivered[i].version)
    /\ [][ \A h \in Handles :
              (handles[h]'.st = "open" /\ handles[h]'.delivered # handles[h].delivered)
                 => /\ handles[h]'.delivered =
                          Append(handles[h].delivered,
                                 [value |-> state, version |-> chan.version])
                    /\ UNCHANGED chan ]_vars

\* C13 witness: run() made two broadcasts while neither handle read; then one
\* handle read and got the second state only, the other still has not read.
C13_Witness ==
    /\ pc = "loop" /\ chan.version = 2
    /\ handles[1].bornIdle /\ Versions(1) = << 2 >>
    /\ handles[1].delivered[1].value = state
    /\ handles[2].bornIdle /\ handles[2].delivered = << >>

\* The largest element of a non-empty set of naturals.
Max(S) == CHOOSE x \in S : \A y \in S : y <= x

\* C14: the compare-and-swap on the watermark always succeeds: right after run()
\* applies an event the watermark is that event's sequence number; so the
\* watermark is the highest sequence number applied so far, and when run()
\* returns Ok it is the highest sequence number processed.
C14_WatermarkIsLastApplied ==
    /\ [][ (Yields /\ NextItem # Err /\ ~(NextItem < last_sequence_number))
              => last_sequence_number' = NextItem ]_vars
    /\ [][ (Yields /\ NextItem # Err) => NextItem <= last_sequence_number' ]_vars
    /\ [](state # << >> =>
             /\ last_sequence_number = state[Len(state)]
             /\ last_sequence_number = Max(Range(state)))

\* C14 witness: run() returned Ok after applying 1, discarding 0 and applying 3.
C14_Witness ==
    /\ Completed /\ runs = 1 /\ consumed = 3
    /\ state = << 1, 3 >> /\ last_sequence_number = 3

LiveYield ==
    /\ Yields
    /\ subscription # << >>
    /\ subscription' = Tail(subscription)
    /\ one_off_stream' = one_off_stream

\* C16: run() has its subscription before it asks the store for the catch-up
\* stream, and it consumes every item of the catch-up stream before the first
\* item of the subscription: no live item is processed while catch-up items remain.
C16_SubscribeThenCatchUpThenLive ==
    /\ [](queried => subscribed)
    /\ [](ret = "stream_all" => subscribed)
    /\ []((pc = "open" /\ NextOpen = "stream_all") => (subscribed /\ ~queried))
    /\ [](consumed > CatchUpConsumed => (queried /\ one_off_stream = << >>))
    /\ [][ LiveYield => (one_off_stream = << >> /\ oneOffEnded
                          /\ CatchUpConsumed = queryPos) ]_vars

\* C16 witness: live event 2 was waiting before the catch-up stream was opened with
\* 1 and 2; run() consumed the catch-up 1, 2 first and then the live 2, 3.
C16_Witness ==
    /\ pc = "loop" /\ runs = 1 /\ consumed = 4
    /\ log = << 1, 2, 3 >> /\ subPos = 1 /\ queryPos = 2
    /\ state = << 1, 2, 2, 3 >>

\* C17: the broadcast never fails: at every broadcast the channel has a live
\* Receiver, the one the engine keeps, so every fold's broadcast goes through,
\* the expect() never panics and run() stays in its loop, also when every handle
\* watch() returned has been dropped or none was ever made.
C17_BroadcastNeverFails ==
    /\ [](pc # "panicked" /\ ret # "panic")
    /\ [][ (Yields /\ NextItem # Err /\ ~(NextItem < last_sequence_number))
              => /\ Receivers # {}
                 /\ chan' = [value |-> state', version |-> chan.version + 1]
                 /\ pc' = "loop" ]_vars

\* C17 witness: the only handle ever made was dropped before the first
\* broadcast; run() has made two broadcasts since.
C17_Witness ==
    /\ handles[1].st = "dropped" /\ handles[1].droppedAt = 0
    /\ handles[2].st = "none"
    /\ pc = "loop" /\ chan.version = 2 /\ chan.value = state

\* The merged stream has ended: both streams are empty and will stay so.
StreamEnded ==
    /\ one_off_stream = << >> /\ oneOffEnded
    /\ subscription = << >> /\ liveClosed

\* C18: with finite streams, a run() that has entered its loop returns; it
\* returns Ok only from the end of the merged stream, with every item processed,
\* and it returns an error only on reading an Err item; it never returns while
\* the merged stream can still deliver an item and no error has occurred.
C18_RunTerminates ==
    /\ [](pc = "loop" => <>(pc = "idle" /\ ret \in {"Ok", "item"}))
    /\ [](Completed => StreamEnded)
    /\ [][ (pc = "loop" /\ pc' # "loop")
              => \/ StreamEnded /\ pc' = "idle" /\ ret' = "Ok"
                 \/ Yields /\ NextItem = Err /\ pc' = "idle" /\ ret' = "item" ]_vars

\* C18 witness: both streams ended without an error and run() returned Ok after
\* processing four events.
C18_Witness ==
    /\ Completed /\ StreamEnded /\ runs = 1 /\ consumed = 4
    /\ state = << 0, 1, 2, 3 >>

\* This step is run() folding the item stream.next() yields.
Folds == Yields /\ NextItem # Err /\ ~(NextItem < last_sequence_number)

\* C19: run() makes exactly one broadcast for each event it folds and none
\* otherwise: the number of broadcasts is the number of events folded, and
\* whenever run() waits for its next item, or has returned, the channel holds
\* the engine's state.
C19_OneBroadcastPerFold ==
    /\ [](chan.version = Len(state) /\ chan.value = state)
    /\ [][ Folds => (chan'.version = chan.version + 1 /\ chan'.value = state'
                     /\ state' = Append(state, NextItem)) ]_vars
    /\ [][ ~Folds => UNCHANGED << chan, state >> ]_vars

\* C19 witness: of four events consumed two were discarded: two folds, two
\* broadcasts, and the channel holds the state.
C19_Witness ==
    /\ pc = "loop" /\ runs = 1 /\ consumed = 4
    /\ state = << 2, 3 >> /\ chan = [value |-> << 2, 3 >>, version |-> 2]

\* C20: state and watermark persist across run() invocations: calling run()
\* again changes neither, the state is only ever extended and the watermark never
\* decreases, over all runs; and a catch-up event re-delivered to a later run()
\* with a sequence number strictly below the retained watermark is discarded
\* without state change or broadcast.
C20_StatePersistsAcrossRuns ==
    /\ [][ (pc = "idle" /\ pc' = "open")
              => UNCHANGED << state, last_sequence_number, chan >> ]_vars
    /\ [][ /\ last_sequence_number' >= last_sequence_number
           /\ Len(state') >= Len(state)
           /\ state = SubSeq(state', 1, Len(state)) ]_vars
    /\ [][ (runs >= 2 /\ Yields /\ one_off_stream # << >>
              /\ NextItem < last_sequence_number)
              => UNCHANGED << state, last_sequence_number, chan >> ]_vars

\* C20 witness: the first run() folded 1 and 2 and returned; the second run()
\* was given 1, 2, 3 by the store and has discarded the re-delivered 1.
C20_Witness ==
    /\ pc = "loop" /\ runs = 2 /\ consumed = 1
    /\ log = << 1, 2, 3 >> /\ one_off_stream = << 2, 3 >>
    /\ state = << 1, 2 >> /\ last_sequence_number = 2 /\ chan.version = 2

=============================================================================
